---- MODULE Spec2Model ----
(***************************************************************************)
(* Obsidian-Syncthing-Launcher: the SyncthingMonitor class of src/main.ts  *)
(* (event poll, connections check, liveness probe) and the callers of      *)
(* SyncthingLauncher that start and stop it.                               *)
(*                                                                         *)
(* A handler of the program is one atomic step (JavaScript runs each       *)
(* callback to completion).  A handler is written as an operator from a    *)
(* "world" record (the monitor's fields, the requests in flight, the       *)
(* pending timers and what the handler has emitted so far) to the world    *)
(* it leaves, so that a method calling another one is a composition.       *)
(***************************************************************************)
EXTENDS Integers, Sequences, FiniteSets, TLC

VARIABLES
    \* ---- fields of SyncthingMonitor (src/main.ts 61-73)
    token, isTokenSet, lastEventId, pollingTimeoutId,
    status, connectedDevicesCount, availableDevices,
    fileCompletion, globalItems, needItems,
    \* ---- the runtime around it
    pollReqs,       \* GET /rest/events requests in flight
    connReqs,       \* GET /rest/system/connections requests in flight
    timers,         \* number of pending setTimeout(() => this.poll(), ..)
    \* ---- fields and timers of SyncthingLauncher
    syncthingApiKey,   \* settings.syncthingApiKey
    syncthingInstance, \* TRUE when this.syncthingInstance holds a child handle
    restartTimers,     \* pending saveSettings timers (1000 ms)
    delayedStarts,     \* pending startSyncthing timers (2000 ms)
    launching,         \* startSyncthing calls waiting 1000 ms before spawn
    loaded,            \* onload has run
    statusListeners,   \* 'status-update' listeners startStatusMonitoring added
    settings,          \* settings.mobileMode, .useDocker and .remoteUrl
    baseUrl,           \* monitor.baseUrl, the URL isSyncthingRunning parses
    unsignalled,       \* spawned children that were never sent SIGTERM
    handleSignalled,   \* the child of this.syncthingInstance was sent SIGTERM
    configDir,         \* the syncthing-config directory: port file, other entries
    \* ---- the liveness probes of isSyncthingRunning
    probes,
    \* ---- the pure-function harness (event batches)
    batch, stage,
    \* ---- what the last handler did (observation only, never read by a handler)
    op,             \* its name
    emitted,        \* the notifications it emitted, in order
    issued,         \* the since= values of the poll requests it issued
    scheduled,      \* the delays of the poll timers it set
    input,          \* its input: <<key>>, <<statusCode, body>> or <<>>
    phase,          \* "new", "started" (after startMonitoring), "stopped"
    timersAtStop    \* while stopped: the poll timers pending when stopMonitoring ran

monitorVars == <<token, isTokenSet, lastEventId, pollingTimeoutId, status,
                 connectedDevicesCount, availableDevices,
                 fileCompletion, globalItems, needItems>>
netVars == <<pollReqs, connReqs, timers>>
launcherVars == <<syncthingApiKey, syncthingInstance, restartTimers,
                  delayedStarts, launching, loaded, statusListeners,
                  settings, baseUrl, unsignalled, handleSignalled, configDir>>
obsVars == <<op, emitted, issued, scheduled, input, phase, timersAtStop>>
vars == <<monitorVars, netVars, launcherVars, probes, batch, stage, obsVars>>

----------------------------------------------------------------------------
\* Bounds of the model.
MaxChains == 2      \* poll chains (requests in flight + pending poll timers)
MaxConnReqs == 1    \* connections requests in flight
MaxEventId == 2     \* event ids are 1..MaxEventId
MaxBatchLen == 1    \* events per response body
MaxPeers == 2       \* entries of a connections map
MaxLauncherTimers == 1  \* pending timers of each launcher kind
MaxProbes == 2      \* liveness probes in flight
MaxListeners == 2   \* listeners registered on the monitor

\* JavaScript's undefined and NaN, as values no number of the model takes.
Undefined == -1
NaN == -2

\* The timeout field (seconds) and the two reschedule delays (ms).
PollTimeoutSec == 1
RetryDelayMs == 5000

NullToken == "<null>"
Tokens == {"", "key"}
Truthy(t) == t \notin {NullToken, ""}

\* ---- the URLs of the model
LocalUrl == "http://127.0.0.1:8384"    \* the default of both classes
DockerUrl == "http://127.0.0.1:8380/"  \* SYNCTHING_CORS_PROXY_CONTAINER_URL
RemoteUrl == "http://nas.example:8443" \* a daemon on another machine

\* DEFAULT_SETTINGS (src/main.ts 31-39), the three fields that select a URL
DEFAULT_SETTINGS ==
    [mobileMode |-> FALSE, useDocker |-> FALSE, remoteUrl |-> LocalUrl]

\* new URL(u).hostname and .port for the URLs of the model
UrlHostname(u) ==
    CASE u = LocalUrl -> "127.0.0.1"
      [] u = DockerUrl -> "127.0.0.1"
      [] u = RemoteUrl -> "nas.example"
UrlPort(u) ==
    CASE u = LocalUrl -> "8384"
      [] u = DockerUrl -> "8380"
      [] u = RemoteUrl -> "8443"

\* ---- the config directory: the content of its .syncthing-port file (or
\* Absent) and the number of its other entries
Absent == "<absent>"
EmptyDir == [portFile |-> Absent, files |-> 0]

\* how the file system answers one call: readFileSync, the readdir/unlink/
\* rm loop and writeFileSync each succeed or throw
FsOutcomes == [read : BOOLEAN, clear : BOOLEAN, write : BOOLEAN]
HealthyFs == [read |-> TRUE, clear |-> TRUE, write |-> TRUE]

\* String.prototype.trim for the file contents of the model
Trim(text) ==
    CASE text = "8384\n" -> "8384"
      [] text = " " -> ""
      [] OTHER -> text

\* ---- ensureConfigForPort(configDir, port)  (src/main.ts 879-928)
EnsureConfigForPort(dir, port, fs) ==
    LET storedPort == IF dir.portFile = Absent \/ ~fs.read
                      THEN "" ELSE Trim(dir.portFile)
        changed == storedPort # "" /\ storedPort # port
        cleared == changed /\ fs.clear
        afterClear == IF cleared THEN EmptyDir ELSE dir
    IN  [dir |-> IF fs.write THEN [afterClear EXCEPT !.portFile = port]
                 ELSE afterClear,
         deleted |-> cleared]

\* the port startSyncthing takes from remoteUrl (src/main.ts 590-602)
PortFor(remoteUrl) ==
    IF remoteUrl # "" /\ UrlHostname(remoteUrl) \in {"127.0.0.1", "localhost"}
    THEN UrlPort(remoteUrl) ELSE "8384"

----------------------------------------------------------------------------
\* The world a handler runs in: the monitor's fields, the runtime, and the
\* (initially empty) record of what this handler emits, issues and schedules.
World ==
    [token |-> token, isTokenSet |-> isTokenSet, lastEventId |-> lastEventId,
     pollingTimeoutId |-> pollingTimeoutId, status |-> status,
     connectedDevicesCount |-> connectedDevicesCount,
     availableDevices |-> availableDevices,
     fileCompletion |-> fileCompletion, globalItems |-> globalItems,
     needItems |-> needItems,
     pollReqs |-> pollReqs, connReqs |-> connReqs, timers |-> timers,
     emitted |-> <<>>, issued |-> <<>>, scheduled |-> <<>>,
     order |-> <<>>]     \* the handler's outward steps, in program order

\* this.emit('status-update', {status, NaN, NaN, NaN, NaN, NaN})
NaNUpdate(w) ==
    <<"status-update",
      [status |-> w.status, fileCompletion |-> NaN, globalItems |-> NaN,
       needItems |-> NaN, connectedDevicesCount |-> NaN,
       availableDevices |-> NaN]>>

\* this.emit('status-update', {status, fileCompletion, ...}) with the fields
FullUpdate(w) ==
    <<"status-update",
      [status |-> w.status, fileCompletion |-> w.fileCompletion,
       globalItems |-> w.globalItems, needItems |-> w.needItems,
       connectedDevicesCount |-> w.connectedDevicesCount,
       availableDevices |-> w.availableDevices]>>

Emit(w, e) == [w EXCEPT !.emitted = Append(@, e), !.order = Append(@, e[1])]

\* A timer handle matters only through clearTimeout, which cancels the timer
\* if it is still pending.  pollingTimeoutId is therefore "undefined", or
\* "pending" / "fired" for a handle whose timer is pending / has run; timers
\* counts the pending poll timers, among them the one pollingTimeoutId may
\* refer to (the others are timers whose handle was overwritten).
\* this.pollingTimeoutId = setTimeout(() => this.poll(), ms)
SetPollTimer(w, ms) ==
    [w EXCEPT !.timers = @ + 1, !.pollingTimeoutId = "pending",
              !.scheduled = Append(@, ms), !.order = Append(@, "setTimeout")]

\* ---- poll(), up to req.end()  (src/main.ts 115-211)
\* since = this.lastEventId ?? 0
Since(w) == IF w.lastEventId = Undefined THEN 0 ELSE w.lastEventId

Poll(w) ==
    IF ~Truthy(w.token)
    THEN LET w1 == [w EXCEPT !.status = "API key not set"] IN
         Emit(w1, NaNUpdate(w1))
    ELSE [w EXCEPT !.pollReqs = @ + 1, !.issued = Append(@, Since(w)),
                   !.order = Append(@, "GET /rest/events")]

\* ---- checkConnections(), up to req.end()  (src/main.ts 260-344)
CheckConnections(w) ==
    IF ~Truthy(w.token)
    THEN LET w1 == [w EXCEPT !.status = "API key not set"] IN
         Emit(w1, NaNUpdate(w1))
    ELSE [w EXCEPT !.connReqs = @ + 1,
                   !.order = Append(@, "GET /rest/system/connections")]

\* A startMonitoring that lacks the isTokenSet test (used to test C3).
StartMonitoringUnguarded(w, key) ==
    CheckConnections(Poll([w EXCEPT !.token = key, !.isTokenSet = Truthy(key)]))

\* ---- startMonitoring(settings, setStatusIcon, baseUrl)  (src/main.ts 77-103)
StartMonitoring(w, key) ==
    LET w1 == [w EXCEPT !.token = key, !.isTokenSet = Truthy(key)] IN
    IF w1.isTokenSet
    THEN CheckConnections(Poll(w1))
    ELSE LET w2 == [w1 EXCEPT !.status = "API key not set"] IN
         Emit(w2, NaNUpdate(w2))

\* ---- stopMonitoring()  (src/main.ts 105-113)
StopMonitoring(w) ==
    LET w1 == IF w.pollingTimeoutId # "undefined"
              THEN [w EXCEPT !.timers = IF w.pollingTimeoutId = "pending"
                                        THEN @ - 1 ELSE @,
                             !.pollingTimeoutId = "undefined"]
              ELSE w
    IN Emit([w1 EXCEPT !.lastEventId = Undefined, !.status = "stopped"],
            <<"disconnected">>)

----------------------------------------------------------------------------
\* Events of GET /rest/events (interface SyncthingEvent, src/main.ts 41-46).
\* data carries the payload fields processEvent reads; a field the payload
\* lacks reads as undefined.
NoData == [completion |-> Undefined, globalItems |-> Undefined,
           needItems |-> Undefined, to |-> ""]
FolderData(c, g, n) == [NoData EXCEPT !.completion = c, !.globalItems = g,
                                      !.needItems = n]
Event(i, t, d) == [id |-> i, type |-> t, data |-> d]

\* A processEvent whose FolderCompletion case never lets fileCompletion
\* fall (used to test C10).
ProcessEventKeepsHighest(w, event) ==
    CASE event.type = "FolderCompletion" ->
            [w EXCEPT !.fileCompletion =
                          IF event.data.completion > @
                          THEN event.data.completion ELSE @,
                      !.globalItems = event.data.globalItems,
                      !.needItems = event.data.needItems]
      [] event.type = "StateChanged" ->
            [w EXCEPT !.status = event.data.to]
      [] event.type = "DeviceDisconnected" ->
            [w EXCEPT !.status = "Device disconnected"]
      [] event.type = "DeviceConnected" ->
            [w EXCEPT !.status = "Device connected"]
      [] OTHER -> w

\* A processEvent whose default case falls back to "idle" (used to test
\* C24).
ProcessEventResetsOnUnknown(w, event) ==
    CASE event.type = "FolderCompletion" ->
            [w EXCEPT !.fileCompletion = event.data.completion,
                      !.globalItems = event.data.globalItems,
                      !.needItems = event.data.needItems]
      [] event.type = "StateChanged" ->
            [w EXCEPT !.status = event.data.to]
      [] event.type = "DeviceDisconnected" ->
            [w EXCEPT !.status = "Device disconnected"]
      [] event.type = "DeviceConnected" ->
            [w EXCEPT !.status = "Device connected"]
      [] OTHER -> [w EXCEPT !.status = "idle"]

\* ---- processEvent(event)  (src/main.ts 213-258)
ProcessEvent(w, event) ==
    CASE event.type = "FolderCompletion" ->
            [w EXCEPT !.fileCompletion = event.data.completion,
                      !.globalItems = event.data.globalItems,
                      !.needItems = event.data.needItems]
      [] event.type = "StateChanged" ->
            [w EXCEPT !.status = event.data.to]
      [] event.type = "DeviceDisconnected" ->
            [w EXCEPT !.status = "Device disconnected"]
      [] event.type = "DeviceConnected" ->
            [w EXCEPT !.status = "Device connected"]
      [] OTHER -> w

\* A cursor that takes the id of the event at hand (used to test C4).
MaxIdOfEventOnly(w, event) == event.id

\* Math.max(this.lastEventId ?? 0, event.id)
MaxId(w, event) == IF event.id > Since(w) THEN event.id ELSE Since(w)

\* One turn of the loop: for (const event of events) { ... } (lines 181-184)
ApplyEvent(w, event) ==
    ProcessEvent([w EXCEPT !.lastEventId = MaxId(w, event)], event)

\* A loop that walks the array from its end (used to test C11).
RECURSIVE ProcessBatchBackwards(_, _)
ProcessBatchBackwards(w, events) ==
    IF events = <<>> THEN w
    ELSE ProcessBatchBackwards(ApplyEvent(w, events[Len(events)]),
                               SubSeq(events, 1, Len(events) - 1))

RECURSIVE ProcessBatch(_, _)
ProcessBatch(w, events) ==
    IF events = <<>> THEN w
    ELSE ProcessBatch(ApplyEvent(w, Head(events)), Tail(events))

\* A response body of /rest/events: an array of events, JSON that is no
\* array, text JSON.parse rejects, or text matching /CSRF Error/i.
EventsBody(events) == [kind |-> "events", events |-> events]
NonArrayBody == [kind |-> "nonarray", events |-> <<>>]
UnparseableBody == [kind |-> "unparseable", events |-> <<>>]
CsrfBody == [kind |-> "csrf", events |-> <<>>]

\* A completion handler that retries at the polling cadence after an
\* authentication failure (used to test C19).
PollEndRetriesAtCadence(w0, statusCode, body) ==
    LET w == [w0 EXCEPT !.pollReqs = @ - 1] IN
    IF statusCode = 401 \/ body.kind = "csrf"
    THEN LET w1 == [w EXCEPT !.status = "Invalid API key"] IN
         SetPollTimer(Emit(w1, NaNUpdate(w1)), PollTimeoutSec * 1000)
    ELSE LET w1 == IF body.kind = "events"
                    THEN ProcessBatch(w, body.events)
                    ELSE w
             w2 == CheckConnections(w1)
         IN SetPollTimer(Emit(w2, FullUpdate(w2)), PollTimeoutSec * 1000)

\* A completion handler that emits before it checks the connections (used
\* to test C21).
PollEndEmitsFirst(w0, statusCode, body) ==
    LET w == [w0 EXCEPT !.pollReqs = @ - 1] IN
    IF statusCode = 401 \/ body.kind = "csrf"
    THEN LET w1 == [w EXCEPT !.status = "Invalid API key"] IN
         SetPollTimer(Emit(w1, NaNUpdate(w1)), RetryDelayMs)
    ELSE LET w1 == IF body.kind = "events"
                    THEN ProcessBatch(w, body.events)
                    ELSE w
             w2 == Emit(w1, FullUpdate(w1))
         IN SetPollTimer(CheckConnections(w2), PollTimeoutSec * 1000)

\* ---- res.on('end') of poll()  (src/main.ts 158-200)
PollEnd(w0, statusCode, body) ==
    LET w == [w0 EXCEPT !.pollReqs = @ - 1] IN
    IF statusCode = 401 \/ body.kind = "csrf"
    THEN LET w1 == [w EXCEPT !.status = "Invalid API key"] IN
         SetPollTimer(Emit(w1, NaNUpdate(w1)), RetryDelayMs)
    ELSE LET w1 == IF body.kind = "events"
                    THEN ProcessBatch(w, body.events)
                    ELSE w          \* not an array, or JSON.parse threw
             w2 == CheckConnections(w1)
         IN SetPollTimer(Emit(w2, FullUpdate(w2)), PollTimeoutSec * 1000)

\* An error handler that does not retry (used to test C12).
PollErrorGivesUp(w0) ==
    [w0 EXCEPT !.pollReqs = @ - 1, !.status = "Connection error"]

\* An error handler that also drops the cursor and the completion figures
\* (used to test C20).
PollErrorForgets(w0) ==
    LET w == [w0 EXCEPT !.pollReqs = @ - 1, !.lastEventId = Undefined,
                        !.fileCompletion = Undefined] IN
    SetPollTimer([w EXCEPT !.status = "Connection error"], RetryDelayMs)

\* ---- req.on('error') of poll()  (src/main.ts 203-208)
PollError(w0) ==
    LET w == [w0 EXCEPT !.pollReqs = @ - 1] IN
    SetPollTimer([w EXCEPT !.status = "Connection error"], RetryDelayMs)

\* ---- a poll timer fires: () => this.poll()  (src/main.ts 173, 198, 207)
\* own: the timer is the one pollingTimeoutId refers to
PollTimer(w, own) ==
    Poll([w EXCEPT !.timers = @ - 1,
                   !.pollingTimeoutId = IF own THEN "fired" ELSE @])

\* A response body of /rest/system/connections: the values of its
\* connections map ("up": connected true, "down": connected false, "null":
\* a null entry), a body without the connections field, unparseable text,
\* or text matching /CSRF Error/i.
PeersBody(peers) == [kind |-> "peers", peers |-> peers]
MissingBody == [kind |-> "missing", peers |-> <<>>]
BadJsonBody == [kind |-> "unparseable", peers |-> <<>>]
CsrfConnBody == [kind |-> "csrf", peers |-> <<>>]

\* connectionsArray.filter(conn => conn.connected).length
CountUp(peers) == Cardinality({i \in DOMAIN peers : peers[i] = "up"})
HasNull(peers) == \E i \in DOMAIN peers : peers[i] = "null"

\* A connections handler that reports "No devices connected" only over the
\* status "idle" (used to test C5).
ConnEndOnlyOverIdle(w0, statusCode, body) ==
    LET w == [w0 EXCEPT !.connReqs = @ - 1] IN
    IF statusCode = 401 \/ body.kind = "csrf"
    THEN [w EXCEPT !.status = "Invalid API key"]
    ELSE LET w1 ==
               IF body.kind # "peers" THEN w
               ELSE LET wa == [w EXCEPT !.availableDevices = Len(body.peers)] IN
                    IF HasNull(body.peers) THEN wa
                    ELSE LET wc == [wa EXCEPT !.connectedDevicesCount =
                                                   CountUp(body.peers)] IN
                         IF wc.connectedDevicesCount = 0 /\ wc.status = "idle"
                         THEN [wc EXCEPT !.status = "No devices connected"]
                         ELSE wc
         IN Emit(w1, FullUpdate(w1))

\* A connections handler that takes an authentication failure for the loss
\* of all peers (used to test C22).
ConnEndZeroesOnAuthFailure(w0, statusCode, body) ==
    LET w == [w0 EXCEPT !.connReqs = @ - 1] IN
    IF statusCode = 401 \/ body.kind = "csrf"
    THEN [w EXCEPT !.status = "Invalid API key", !.connectedDevicesCount = 0]
    ELSE LET w1 ==
               IF body.kind # "peers" THEN w
               ELSE LET wa == [w EXCEPT !.availableDevices = Len(body.peers)] IN
                    IF HasNull(body.peers) THEN wa
                    ELSE LET wc == [wa EXCEPT !.connectedDevicesCount =
                                                   CountUp(body.peers)] IN
                         IF wc.connectedDevicesCount = 0
                         THEN [wc EXCEPT !.status = "No devices connected"]
                         ELSE wc
         IN Emit(w1, FullUpdate(w1))

\* ---- res.on('end') of checkConnections()  (src/main.ts 301-336)
ConnEnd(w0, statusCode, body) ==
    LET w == [w0 EXCEPT !.connReqs = @ - 1] IN
    IF statusCode = 401 \/ body.kind = "csrf"
    THEN [w EXCEPT !.status = "Invalid API key"]
    ELSE LET w1 ==
               IF body.kind # "peers" THEN w  \* JSON.parse or Object.values threw
               ELSE LET wa == [w EXCEPT !.availableDevices = Len(body.peers)] IN
                    IF HasNull(body.peers) THEN wa   \* conn.connected threw
                    ELSE LET wc == [wa EXCEPT !.connectedDevicesCount =
                                                   CountUp(body.peers)] IN
                         IF wc.connectedDevicesCount = 0
                         THEN [wc EXCEPT !.status = "No devices connected"]
                         ELSE wc
         IN Emit(w1, FullUpdate(w1))

\* ---- req.on('error') of checkConnections()  (src/main.ts 339-341)
ConnError(w0) == [w0 EXCEPT !.connReqs = @ - 1]

----------------------------------------------------------------------------
\* Inputs.
SeqsUpTo(S, n) == UNION {[1..k -> S] : k \in 0..n}

EventIds == 1..MaxEventId
StateChangedTo(t) == [NoData EXCEPT !.to = t]

\* An environment: the tokens startMonitoring is called with, and the status
\* codes and bodies the daemon answers with.
Env(tokens, pollCodes, pollBodies, connCodes, connBodies) ==
    [tokens |-> tokens, pollCodes |-> pollCodes, pollBodies |-> pollBodies,
     connCodes |-> connCodes, connBodies |-> connBodies]

\* The caps of the model: a handler that would exceed one is not taken.
Chains(w) == w.pollReqs + w.timers
Within(w) == Chains(w) <= MaxChains /\ w.connReqs <= MaxConnReqs

\* The handler's result becomes the next state.
Commit(w, name, in) ==
    /\ token' = w.token
    /\ isTokenSet' = w.isTokenSet
    /\ lastEventId' = w.lastEventId
    /\ pollingTimeoutId' = w.pollingTimeoutId
    /\ status' = w.status
    /\ connectedDevicesCount' = w.connectedDevicesCount
    /\ availableDevices' = w.availableDevices
    /\ fileCompletion' = w.fileCompletion
    /\ globalItems' = w.globalItems
    /\ needItems' = w.needItems
    /\ pollReqs' = w.pollReqs
    /\ connReqs' = w.connReqs
    /\ timers' = w.timers
    /\ emitted' = w.emitted
    /\ issued' = w.issued
    /\ scheduled' = w.scheduled
    /\ op' = name
    /\ input' = in
    /\ timersAtStop' = CASE name = "stopMonitoring" -> timers
                         [] name = "startMonitoring" -> 0
                         [] OTHER -> timersAtStop
    /\ phase' = CASE name = "startMonitoring" -> "started"
                  [] name = "stopMonitoring" -> "stopped"
                  [] OTHER -> phase

InitMonitor ==
    /\ token = NullToken
    /\ isTokenSet = FALSE
    /\ lastEventId = Undefined
    /\ pollingTimeoutId = "undefined"
    /\ status = "idle"
    /\ connectedDevicesCount = 0
    /\ availableDevices = 0
    /\ fileCompletion = Undefined
    /\ globalItems = Undefined
    /\ needItems = Undefined
    /\ pollReqs = 0
    /\ connReqs = 0
    /\ timers = 0
    /\ op = "new"
    /\ emitted = <<>>
    /\ issued = <<>>
    /\ scheduled = <<>>
    /\ input = <<>>
    /\ phase = "new"
    /\ timersAtStop = 0

InitLauncher ==
    /\ syncthingApiKey = ""
    /\ syncthingInstance = FALSE
    /\ restartTimers = 0
    /\ delayedStarts = 0
    /\ launching = 0
    /\ loaded = FALSE
    /\ statusListeners = 0
    /\ settings = DEFAULT_SETTINGS
    /\ baseUrl = LocalUrl
    /\ unsignalled = 0
    /\ handleSignalled = FALSE
    /\ configDir = EmptyDir

InitRest ==
    /\ probes = <<>>
    /\ batch = <<>>
    /\ stage = "none"

----------------------------------------------------------------------------
\* The monitor's handlers as actions.
DoStartMonitoring(key) ==
    /\ Within(StartMonitoring(World, key))
    /\ Commit(StartMonitoring(World, key), "startMonitoring", <<key>>)

DoStopMonitoring == Commit(StopMonitoring(World), "stopMonitoring", <<>>)

DoPollEnd(env) ==
    /\ pollReqs > 0
    /\ \E code \in env.pollCodes, body \in env.pollBodies :
          /\ Within(PollEnd(World, code, body))
          /\ Commit(PollEnd(World, code, body), "pollEnd", <<code, body>>)

DoPollError ==
    /\ pollReqs > 0
    /\ Commit(PollError(World), "pollError", <<>>)

Orphans == timers - (IF pollingTimeoutId = "pending" THEN 1 ELSE 0)
DoPollTimer ==
    \E own \in BOOLEAN :
        /\ IF own THEN pollingTimeoutId = "pending" ELSE Orphans > 0
        /\ Commit(PollTimer(World, own), "pollTimer", <<>>)

DoConnEnd(env) ==
    /\ connReqs > 0
    /\ \E code \in env.connCodes, body \in env.connBodies :
          Commit(ConnEnd(World, code, body), "connEnd", <<code, body>>)

DoConnError ==
    /\ connReqs > 0
    /\ Commit(ConnError(World), "connError", <<>>)

----------------------------------------------------------------------------
\* SpecMonitor: the SyncthingMonitor class under any use of its two public
\* lifecycle methods, with a daemon that answers the event poll in every
\* way (events with any ids, non-array JSON, unparseable text, 401, CSRF,
\* transport error).
otherVars == <<launcherVars, probes, batch, stage>>

LifecycleEnv ==
    Env(Tokens,
        {200, 401},
        {EventsBody(b) :
            b \in SeqsUpTo({Event(i, "ConfigSaved", NoData) : i \in EventIds},
                           MaxBatchLen)}
          \cup {NonArrayBody, UnparseableBody, CsrfBody},
        {200},
        {PeersBody(<<"up">>)})

MonitorStart ==
    (\E key \in LifecycleEnv.tokens : DoStartMonitoring(key)) /\ UNCHANGED otherVars
MonitorStop == DoStopMonitoring /\ UNCHANGED otherVars
MonitorPollEnd == DoPollEnd(LifecycleEnv) /\ UNCHANGED otherVars
MonitorPollError == DoPollError /\ UNCHANGED otherVars
MonitorPollTimer == DoPollTimer /\ UNCHANGED otherVars
MonitorConnEnd == DoConnEnd(LifecycleEnv) /\ UNCHANGED otherVars
MonitorConnError == DoConnError /\ UNCHANGED otherVars

InitSpecMonitor == InitMonitor /\ InitLauncher /\ InitRest
NextMonitor ==
    \/ MonitorStart
    \/ MonitorStop
    \/ MonitorPollEnd
    \/ MonitorPollError
    \/ MonitorPollTimer
    \/ MonitorConnEnd
    \/ MonitorConnError
SpecMonitor == InitSpecMonitor /\ [][NextMonitor]_vars

----------------------------------------------------------------------------
\* Spec: the plugin.  SyncthingLauncher drives the monitor from onload,
\* saveSettings, startSyncthing and stopSyncthing, on a desktop without
\* Docker (isMobile, mobileMode and useDocker false), where startSyncthing
\* reaches spawn whenever its liveness probe reported the daemon not running.

\* ---- getSyncthingURL()  (src/main.ts 930-951)
GetSyncthingURL(st) ==
    IF st.mobileMode THEN st.remoteUrl
    ELSE IF st.useDocker THEN DockerUrl
    ELSE IF st.remoteUrl # "" THEN st.remoteUrl
    ELSE LocalUrl

\* this.baseUrl = baseUrl (src/main.ts 86): startMonitoring is the only
\* assignment, and startStatusMonitoring reaches it only with an API key
BaseUrlAfter(url, key, st) == IF Truthy(key) THEN GetSyncthingURL(st) ELSE url

\* ---- stopSyncthing() on a desktop without Docker (src/main.ts 685-700):
\* SIGTERM to the child of this.syncthingInstance, when there is one
UnsignalledAfterStop ==
    IF syncthingInstance /\ ~handleSignalled /\ ~settings.mobileMode
                        /\ ~settings.useDocker
    THEN unsignalled - 1 ELSE unsignalled
HandleSignalledAfterStop ==
    IF syncthingInstance /\ ~settings.mobileMode /\ ~settings.useDocker
    THEN TRUE ELSE handleSignalled

\* ---- startStatusMonitoring()  (src/main.ts 480-495)
StartStatusMonitoring(w, key) ==
    IF ~Truthy(key) THEN w ELSE StartMonitoring(w, key)

StartStatusMonitoringName(key) ==
    IF ~Truthy(key) THEN "startStatusMonitoring" ELSE "startMonitoring"

\* this.monitor.on('status-update', ...) (lines 491-494): one more listener
\* each time startStatusMonitoring gets past its API-key test
ListenersAfter(n, key) == IF Truthy(key) THEN n + 1 ELSE n

DoStartStatusMonitoring ==
    /\ Within(StartStatusMonitoring(World, syncthingApiKey))
    /\ ListenersAfter(statusListeners, syncthingApiKey) <= MaxListeners
    /\ statusListeners' = ListenersAfter(statusListeners, syncthingApiKey)
    /\ baseUrl' = BaseUrlAfter(baseUrl, syncthingApiKey, settings)
    /\ Commit(StartStatusMonitoring(World, syncthingApiKey),
              StartStatusMonitoringName(syncthingApiKey), <<syncthingApiKey>>)

\* ---- onload()  (src/main.ts 412-471): loadSettings, startStatusMonitoring
LoadAndStart(saved) ==
    /\ ~loaded
    /\ loaded' = TRUE
    /\ \E key \in LifecycleEnv.tokens, st \in saved :
          /\ syncthingApiKey' = key
          /\ settings' = st
          /\ statusListeners' = ListenersAfter(statusListeners, key)
          /\ baseUrl' = BaseUrlAfter(baseUrl, key, st)
          /\ Within(StartStatusMonitoring(World, key))
          /\ Commit(StartStatusMonitoring(World, key),
                    StartStatusMonitoringName(key), <<key>>)
    /\ UNCHANGED <<syncthingInstance, restartTimers, delayedStarts, launching,
                   unsignalled, handleSignalled, configDir, probes, batch, stage>>

Onload == LoadAndStart({DEFAULT_SETTINGS})

\* ---- a settings control changes a setting and calls saveSettings()
\* (src/main.ts 1596-1603, called from 1862-1920)
ChangeAndSave(keys, choices) ==
    /\ loaded
    /\ restartTimers < MaxLauncherTimers
    /\ \E key \in keys : syncthingApiKey' = key
    /\ \E st \in choices : settings' = st
    /\ DoStopMonitoring
    /\ restartTimers' = restartTimers + 1
    /\ UNCHANGED <<syncthingInstance, delayedStarts, launching, loaded,
                   statusListeners, baseUrl, unsignalled, handleSignalled,
                   configDir, probes, batch, stage>>

SaveSettings == ChangeAndSave(LifecycleEnv.tokens, {settings})

\* ---- the timer of saveSettings fires after 1000 ms (src/main.ts 1600-1602)
RestartTimer ==
    /\ restartTimers > 0
    /\ restartTimers' = restartTimers - 1
    /\ DoStartStatusMonitoring
    /\ UNCHANGED <<syncthingApiKey, syncthingInstance, delayedStarts, launching,
                   loaded, settings, unsignalled, handleSignalled,
                   configDir, probes, batch, stage>>

\* ---- stopSyncthing()  (src/main.ts 647-702); the child handle is kept
StopSyncthing ==
    /\ loaded
    /\ DoStopMonitoring
    /\ unsignalled' = UnsignalledAfterStop
    /\ handleSignalled' = HandleSignalledAfterStop
    /\ UNCHANGED <<syncthingApiKey, syncthingInstance, restartTimers,
                   delayedStarts, launching, loaded, statusListeners,
                   settings, baseUrl, configDir, probes, batch, stage>>

\* await this.ensureConfigForPort(configDir, port) (src/main.ts 590-605), on
\* a file system whose calls succeed
ConfigDirAfterStart ==
    EnsureConfigForPort(configDir, PortFor(settings.remoteUrl), HealthyFs).dir

\* ---- startSyncthing(), an earlier child exists: stopSyncthing(), then a
\* wait of 1000 ms  (src/main.ts 607-613)
StartSyncthingStopExisting ==
    /\ loaded
    /\ syncthingInstance
    /\ launching < MaxLauncherTimers
    /\ launching' = launching + 1
    /\ DoStopMonitoring
    /\ unsignalled' = UnsignalledAfterStop
    /\ handleSignalled' = HandleSignalledAfterStop
    /\ configDir' = ConfigDirAfterStart
    /\ UNCHANGED <<syncthingApiKey, syncthingInstance, restartTimers,
                   delayedStarts, loaded, statusListeners, settings, baseUrl,
                   probes, batch, stage>>

\* ---- startSyncthing(): spawn, then setTimeout(startStatusMonitoring, 2000)
\* (src/main.ts 615-643)
StartSyncthingSpawn ==
    /\ loaded
    /\ delayedStarts < MaxLauncherTimers
    /\ IF syncthingInstance
       THEN launching > 0 /\ launching' = launching - 1
                         /\ configDir' = configDir
       ELSE launching' = launching /\ configDir' = ConfigDirAfterStart
    /\ syncthingInstance' = TRUE
    /\ unsignalled' = unsignalled + 1
    /\ handleSignalled' = FALSE
    /\ delayedStarts' = delayedStarts + 1
    /\ Commit(World, "spawn", <<>>)
    /\ UNCHANGED <<syncthingApiKey, restartTimers, loaded, statusListeners,
                   settings, baseUrl, probes, batch, stage>>

\* ---- the timer of startSyncthing fires after 2000 ms (src/main.ts 640-642)
DelayedStart ==
    /\ delayedStarts > 0
    /\ delayedStarts' = delayedStarts - 1
    /\ DoStartStatusMonitoring
    /\ UNCHANGED <<syncthingApiKey, syncthingInstance, restartTimers, launching,
                   loaded, settings, unsignalled, handleSignalled,
                   configDir, probes, batch, stage>>

Init == InitMonitor /\ InitLauncher /\ InitRest
Next ==
    \/ Onload
    \/ SaveSettings
    \/ RestartTimer
    \/ StopSyncthing
    \/ StartSyncthingStopExisting
    \/ StartSyncthingSpawn
    \/ DelayedStart
    \/ MonitorPollEnd
    \/ MonitorPollError
    \/ MonitorPollTimer
    \/ MonitorConnEnd
    \/ MonitorConnError
Spec == Init /\ [][Next]_vars

----------------------------------------------------------------------------
\* SpecConn: one monitor with one poll chain (startMonitoring is called with
\* a key, and only while no poll chain is alive), a daemon whose events set every
\* status and whose connections responses take every shape (any mix of
\* connected, disconnected and null entries, a missing map, unparseable
\* text, 401, CSRF, transport error).
ConnEnv ==
    Env({"key"},
        {200},
        {EventsBody(<<>>),
         EventsBody(<<Event(1, "StateChanged", StateChangedTo("scanning"))>>),
         EventsBody(<<Event(1, "DeviceConnected", NoData)>>),
         EventsBody(<<Event(1, "FolderCompletion", FolderData(42, 10, 4))>>),
         EventsBody(<<Event(MaxEventId, "ConfigSaved", NoData)>>)},
        {200, 401},
        {PeersBody(p) : p \in SeqsUpTo({"up", "down", "null"}, MaxPeers)}
          \cup {MissingBody, BadJsonBody, CsrfConnBody})

ConnStart ==
    /\ Chains(World) = 0
    /\ \E key \in ConnEnv.tokens : DoStartMonitoring(key)
    /\ UNCHANGED otherVars
ConnStop == DoStopMonitoring /\ UNCHANGED otherVars
ConnPollEnd == DoPollEnd(ConnEnv) /\ UNCHANGED otherVars
ConnPollError == DoPollError /\ UNCHANGED otherVars
ConnPollTimer == DoPollTimer /\ UNCHANGED otherVars
ConnConnEnd == DoConnEnd(ConnEnv) /\ UNCHANGED otherVars
ConnConnError == DoConnError /\ UNCHANGED otherVars

NextConn ==
    \/ ConnStart
    \/ ConnStop
    \/ ConnPollEnd
    \/ ConnPollError
    \/ ConnPollTimer
    \/ ConnConnEnd
    \/ ConnConnError
SpecConn == Init /\ [][NextConn]_vars

----------------------------------------------------------------------------
\* SpecLive: one monitor with one poll chain and fair scheduling: a pending
\* timer fires (setTimeout), and a request in flight completes, with a
\* response or with a transport error (http.request).  The daemon answers
\* the event poll with 200 or 401, with no event, a state change to idle, a
\* folder completion, JSON that is no array, unparseable text or a CSRF
\* error, and the connections
\* check with 200 or 401 and one connected peer.
LiveEnv ==
    Env({"key"},
        {200, 401},
        {EventsBody(<<>>),
         EventsBody(<<Event(1, "StateChanged", StateChangedTo("idle"))>>),
         EventsBody(<<Event(1, "FolderCompletion", FolderData(42, 10, 4))>>),
         NonArrayBody, UnparseableBody, CsrfBody},
        {200, 401},
        {PeersBody(<<"up">>)})

LiveStart ==
    /\ Chains(World) = 0
    /\ \E key \in LiveEnv.tokens : DoStartMonitoring(key)
    /\ UNCHANGED otherVars
LiveStop == DoStopMonitoring /\ UNCHANGED otherVars
LivePollEnd == DoPollEnd(LiveEnv) /\ UNCHANGED otherVars
LivePollError == DoPollError /\ UNCHANGED otherVars
LivePollTimer == DoPollTimer /\ UNCHANGED otherVars
LiveConnEnd == DoConnEnd(LiveEnv) /\ UNCHANGED otherVars
LiveConnError == DoConnError /\ UNCHANGED otherVars

NextLive ==
    \/ LiveStart
    \/ LiveStop
    \/ LivePollEnd
    \/ LivePollError
    \/ LivePollTimer
    \/ LiveConnEnd
    \/ LiveConnError
SpecLive ==
    /\ Init /\ [][NextLive]_vars
    /\ WF_vars(LivePollTimer)
    /\ WF_vars(LivePollEnd)
    /\ WF_vars(LiveConnEnd)

----------------------------------------------------------------------------
\* SpecProbe: isSyncthingRunning()  (src/main.ts 349-391).  A probe is one
\* call: its GET / request and the promise it returned.  The request emits
\* 'response' at most once, 'timeout' at most once (the socket was idle for
\* 2000 ms, before or after the response) and 'error' at most once, after
\* which it emits nothing; destroy() ends it with a 'socket hang up' error
\* when no response had arrived.
ProbeTimeoutMs == 2000
ProbeCodes == {200, 401, 404}
ProbeErrors == {"ECONNREFUSED", "ETIMEDOUT", "socket hang up"}

NewProbe ==
    [seen |-> <<>>,          \* the events so far, in order
     settled |-> "pending",  \* the promise: "pending", "true" or "false"
     destroyed |-> FALSE,
     delivered |-> FALSE]    \* the awaiting caller has received the value

\* resolve(v): a promise settles once
Resolve(p, v) == IF p.settled = "pending" THEN [p EXCEPT !.settled = v] ELSE p
BoolText(b) == IF b THEN "true" ELSE "false"

\* (res) => { resolve(true) }   (lines 368-371)
OnProbeResponse(p, code) ==
    Resolve([p EXCEPT !.seen = Append(@, <<"response", code>>)], BoolText(TRUE))

\* An error handler that takes an error other than ECONNREFUSED for a daemon
\* that runs but refuses the request (used to test C9).
OnProbeErrorGuessesRunning(p, message) ==
    Resolve([p EXCEPT !.seen = Append(@, <<"error", message>>)],
            IF message = "ECONNREFUSED" THEN BoolText(FALSE) ELSE BoolText(TRUE))

\* req.on('error', ...)   (lines 373-382): false for ECONNREFUSED and for
\* every other message
OnProbeError(p, message) ==
    Resolve([p EXCEPT !.seen = Append(@, <<"error", message>>)],
            IF message = "ECONNREFUSED" THEN BoolText(FALSE) ELSE BoolText(FALSE))

\* req.on('timeout', ...)   (lines 384-387)
OnProbeTimeout(p) ==
    Resolve([p EXCEPT !.seen = Append(@, <<"timeout", ProbeTimeoutMs>>),
                      !.destroyed = TRUE],
            BoolText(FALSE))

Saw(p, kind) == \E i \in DOMAIN p.seen : p.seen[i][1] = kind
Without(q, i) == [j \in 1..(Len(q) - 1) |-> IF j < i THEN q[j] ELSE q[j + 1]]

ProbeCall ==
    /\ Len(probes) < MaxProbes
    /\ probes' = Append(probes, NewProbe)

ProbeResponse ==
    \E i \in DOMAIN probes, code \in ProbeCodes :
        /\ ~Saw(probes[i], "response") /\ ~Saw(probes[i], "error")
        /\ ~probes[i].destroyed
        /\ probes' = [probes EXCEPT ![i] = OnProbeResponse(@, code)]

ProbeError ==
    \E i \in DOMAIN probes, message \in ProbeErrors :
        /\ ~Saw(probes[i], "error")
        /\ IF probes[i].destroyed
           THEN ~Saw(probes[i], "response") /\ message = "socket hang up"
           ELSE message # "socket hang up" \/ Saw(probes[i], "response")
        /\ probes' = [probes EXCEPT ![i] = OnProbeError(@, message)]

ProbeTimeout ==
    \E i \in DOMAIN probes :
        /\ ~Saw(probes[i], "timeout") /\ ~Saw(probes[i], "error")
        /\ probes' = [probes EXCEPT ![i] = OnProbeTimeout(@)]

\* the caller's then-callback (or await) receives the value
ProbeDeliver ==
    \E i \in DOMAIN probes :
        /\ probes[i].settled # "pending" /\ ~probes[i].delivered
        /\ probes' = [probes EXCEPT ![i].delivered = TRUE]

\* a finished probe (value delivered, request closed) is forgotten
ProbeForget ==
    \E i \in DOMAIN probes :
        /\ probes[i].delivered
        /\ Saw(probes[i], "error") \/ probes[i].destroyed
        /\ probes' = Without(probes, i)

probeFrame == <<monitorVars, netVars, launcherVars, batch, stage, obsVars>>
NextProbe ==
    \/ ProbeCall /\ UNCHANGED probeFrame
    \/ ProbeResponse /\ UNCHANGED probeFrame
    \/ ProbeError /\ UNCHANGED probeFrame
    \/ ProbeTimeout /\ UNCHANGED probeFrame
    \/ ProbeDeliver /\ UNCHANGED probeFrame
    \/ ProbeForget /\ UNCHANGED probeFrame
SpecProbe == Init /\ [][NextProbe]_vars

----------------------------------------------------------------------------
\* SpecOneShot: the one-shot operations beside a running monitor.  The
\* plugin is loaded (with or without an API key), the monitor polls as in
\* SpecLive (with a smaller daemon), and meanwhile isSyncthingRunning is called (one probe at a
\* time) and the pause and resume commands run.
\* getSyncthingConfig answers: a config (the paused flags of its folders),
\* JSON without a folders array, unparseable text, or a transport error;
\* updateSyncthingConfig answers: status 200, another status, or a
\* transport error.
ConfigBody(folders) == [kind |-> "config", folders |-> folders]
NoFoldersBody == [kind |-> "nofolders", folders |-> <<>>]
UnparseableConfig == [kind |-> "unparseable", folders |-> <<>>]
ConfigError == [kind |-> "error", folders |-> <<>>]
ConfigGets == {ConfigBody(<<FALSE>>), UnparseableConfig, ConfigError}
ConfigPosts == {"200", "403", "error"}

\* ---- getSyncthingConfig()  (src/main.ts 744-784): resolves with the
\* parsed JSON; rejects without a key, on a parse failure, on an error
GetSyncthingConfig(key, get) ==
    IF ~Truthy(key) THEN "rejected"
    ELSE IF get.kind \in {"config", "nofolders"} THEN "resolved"
    ELSE "rejected"

\* ---- updateSyncthingConfig(config)  (src/main.ts 789-825)
UpdateSyncthingConfig(key, post) ==
    IF ~Truthy(key) THEN FALSE ELSE post = "200"

\* for (const folder of config.folders) { folder.paused = paused }
SetPaused(folders, paused) == [i \in DOMAIN folders |-> paused]

\* the body of pauseSyncthing / resumeSyncthing: the world it leaves, what
\* its promise settles with ("true", "false" or "rejected") and the bodies
\* it POSTs to /rest/config
SetFoldersPaused(w, key, get, post, paused) ==
    IF GetSyncthingConfig(key, get) = "rejected"
    THEN [world |-> w, result |-> "false", posted |-> <<>>]    \* caught
    ELSE IF get.kind = "nofolders"
    THEN [world |-> w, result |-> "false", posted |-> <<>>]    \* for..of throws
    ELSE [world |-> w,
          result |-> BoolText(UpdateSyncthingConfig(key, post)),
          posted |-> <<SetPaused(get.folders, paused)>>]

\* A pause command that reports itself in the monitor's status (used to
\* test C17).
PauseSyncthingMarksStatus(w, key, get, post) ==
    [SetFoldersPaused(w, key, get, post, TRUE)
        EXCEPT !.world = [w EXCEPT !.status = "paused"]]

\* A pause command without the try/catch, whose promise rejects where
\* pauseSyncthing resolves false (used to test C25).
PauseSyncthingUncaught(w, key, get, post) ==
    IF GetSyncthingConfig(key, get) = "rejected" \/ get.kind = "nofolders"
    THEN [world |-> w, result |-> "rejected", posted |-> <<>>]
    ELSE SetFoldersPaused(w, key, get, post, TRUE)

\* ---- pauseSyncthing()  (src/main.ts 707-722)
PauseSyncthing(w, key, get, post) == SetFoldersPaused(w, key, get, post, TRUE)

\* ---- resumeSyncthing()  (src/main.ts 724-739)
ResumeSyncthing(w, key, get, post) == SetFoldersPaused(w, key, get, post, FALSE)

DoPauseSyncthing(gets) ==
    /\ loaded
    /\ \E get \in gets, post \in ConfigPosts :
          LET r == PauseSyncthing(World, syncthingApiKey, get, post) IN
          Commit(r.world, "pauseSyncthing", <<get, post, r.result, r.posted>>)
    /\ UNCHANGED otherVars

DoResumeSyncthing(gets) ==
    /\ loaded
    /\ \E get \in gets, post \in ConfigPosts :
          LET r == ResumeSyncthing(World, syncthingApiKey, get, post) IN
          Commit(r.world, "resumeSyncthing", <<get, post, r.result, r.posted>>)
    /\ UNCHANGED otherVars

OneProbeCall == probes = <<>> /\ ProbeCall

\* the daemon beside the one-shot operations: an event per poll (or 401),
\* one connected peer
OneShotEnv ==
    Env({"key"},
        {200, 401},
        {EventsBody(<<Event(1, "StateChanged", StateChangedTo("idle"))>>)},
        {200},
        {PeersBody(<<"up">>)})

OneShotPollEnd == DoPollEnd(OneShotEnv) /\ UNCHANGED otherVars
OneShotConnEnd == DoConnEnd(OneShotEnv) /\ UNCHANGED otherVars

NextOneShot ==
    \/ Onload
    \/ StopSyncthing
    \/ OneShotPollEnd
    \/ LivePollError
    \/ LivePollTimer
    \/ OneShotConnEnd
    \/ LiveConnError
    \/ DoPauseSyncthing(ConfigGets)
    \/ DoResumeSyncthing(ConfigGets)
    \/ OneProbeCall /\ UNCHANGED probeFrame
    \/ ProbeResponse /\ UNCHANGED probeFrame
    \/ ProbeError /\ UNCHANGED probeFrame
    \/ ProbeTimeout /\ UNCHANGED probeFrame
    \/ ProbeDeliver /\ UNCHANGED probeFrame
    \/ ProbeForget /\ UNCHANGED probeFrame
SpecOneShot == Init /\ [][NextOneShot]_vars

----------------------------------------------------------------------------
\* SpecConfig: the pause and resume commands of a loaded plugin, with or
\* without an API key, against a daemon whose config holds up to MaxFolders
\* folders, paused or not, and which answers in every way.
MaxFolders == 2

AllConfigGets ==
    {ConfigBody(f) : f \in SeqsUpTo(BOOLEAN, MaxFolders)}
      \cup {NoFoldersBody, UnparseableConfig, ConfigError}

NextConfig ==
    \/ Onload
    \/ DoPauseSyncthing(AllConfigGets)
    \/ DoResumeSyncthing(AllConfigGets)
SpecConfig == Init /\ [][NextConfig]_vars

----------------------------------------------------------------------------
\* SpecStatusBar: updateStatusBarFromMonitor(data)  (src/main.ts 514-529) as
\* a function of the 'status-update' payload it is called with: every
\* payload of StatusData is delivered and rendered.
\* The four icon strings of the source: cross mark, red, yellow and green
\* circle.
IconError == "cross"
IconDisconnected == "red"
IconInProgress == "yellow"
IconConnected == "green"

\* a < b on JavaScript numbers: false when either side is NaN
LessThan(a, b) == a # NaN /\ b # NaN /\ a < b

\* A projection that looks at the device count first (used to test C18).
UpdateStatusBarCountFirst(data) ==
    IF data.connectedDevicesCount = 0 THEN IconDisconnected
    ELSE IF data.status = "Invalid API key" THEN IconError
    ELSE IF data.status = "API key not set" THEN IconError
    ELSE IF data.status = "scanning" THEN IconInProgress
    ELSE IF data.fileCompletion # Undefined /\ LessThan(data.fileCompletion, 100)
         THEN IconInProgress
    ELSE IconConnected

\* ---- updateStatusBarFromMonitor(data): the icon it sets
UpdateStatusBarFromMonitor(data) ==
    IF data.status = "Invalid API key" THEN IconError
    ELSE IF data.status = "API key not set" THEN IconError
    ELSE IF data.connectedDevicesCount = 0 THEN IconDisconnected
    ELSE IF data.status = "scanning" THEN IconInProgress
    ELSE IF data.fileCompletion # Undefined /\ LessThan(data.fileCompletion, 100)
         THEN IconInProgress
    ELSE IconConnected

Statuses ==
    {"idle", "scanning", "scan-waiting", "Device connected",
     "Device disconnected", "No devices connected", "Connection error",
     "Invalid API key", "API key not set", "stopped"}

\* payloads of 'status-update' (lines 94-101, 190-197, 327-334)
StatusData ==
    [status : Statuses,
     fileCompletion : {Undefined, NaN, 0, 42, 100},
     globalItems : {Undefined},
     needItems : {Undefined},
     connectedDevicesCount : {NaN, 0, 1, MaxPeers},
     availableDevices : {MaxPeers}]

InitStatusBar ==
    /\ InitLauncher /\ InitRest
    /\ token = NullToken /\ isTokenSet = FALSE
    /\ lastEventId = Undefined /\ pollingTimeoutId = "undefined"
    /\ status = "idle"
    /\ connectedDevicesCount = 0 /\ availableDevices = 0
    /\ fileCompletion = Undefined /\ globalItems = Undefined
    /\ needItems = Undefined
    /\ pollReqs = 0 /\ connReqs = 0 /\ timers = 0
    /\ op = "status-update"
    /\ input \in {<<data>> : data \in StatusData}
    /\ emitted = <<>> /\ issued = <<>> /\ scheduled = <<>>
    /\ phase = "new" /\ timersAtStop = 0

\* the listener of startStatusMonitoring (lines 491-494) runs
RenderStatusBar ==
    /\ op = "status-update"
    /\ Commit(World, "updateStatusBarFromMonitor",
              <<input[1], UpdateStatusBarFromMonitor(input[1])>>)
    /\ UNCHANGED otherVars

NextStatusBar == RenderStatusBar
SpecStatusBar == InitStatusBar /\ [][NextStatusBar]_vars

----------------------------------------------------------------------------
\* SpecUrl: the address the liveness probe goes to.  The plugin loads any
\* saved settings (mobile mode, Docker, a local or remote or cleared
\* remoteUrl, with or without an API key), the user changes them, the
\* restart timer of saveSettings fires, and isSyncthingRunning is called at
\* any moment (status-bar click, settings tab, startSyncthing).
RemoteUrls == {LocalUrl, RemoteUrl, ""}
SettingsChoices ==
    {[mobileMode |-> m, useDocker |-> d, remoteUrl |-> u] :
        m \in BOOLEAN, d \in BOOLEAN, u \in RemoteUrls}

\* parseInt(text): NaN for the empty string
ParseInt(text) ==
    CASE text = "8384" -> 8384
      [] text = "8380" -> 8380
      [] text = "8443" -> 8443
      [] OTHER -> NaN

\* the options of the probe's request (src/main.ts 351-366); new URL('')
\* throws a TypeError inside the promise executor
ProbeOptions(url) ==
    IF url = "" THEN [hostname |-> "TypeError", port |-> NaN]
    ELSE [hostname |-> IF UrlHostname(url) \in {"localhost", "127.0.0.1"}
                       THEN "::1" ELSE UrlHostname(url),
          port |-> IF ParseInt(UrlPort(url)) \in {NaN, 0}
                   THEN 8384 ELSE ParseInt(UrlPort(url))]

\* ---- this.monitor.isSyncthingRunning() (src/main.ts 956-957 and callers)
UrlProbe ==
    /\ loaded
    /\ Len(probes) < MaxProbes
    /\ probes' = Append(probes, NewProbe)
    /\ Commit(World, "isSyncthingRunning", <<ProbeOptions(baseUrl)>>)
    /\ UNCHANGED <<launcherVars, batch, stage>>

UrlOnload == LoadAndStart(SettingsChoices)
UrlChangeSettings == ChangeAndSave({syncthingApiKey}, SettingsChoices)

NextUrl ==
    \/ UrlOnload
    \/ UrlChangeSettings
    \/ RestartTimer
    \/ UrlProbe
    \/ ProbeResponse /\ UNCHANGED probeFrame
    \/ ProbeError /\ UNCHANGED probeFrame
    \/ ProbeTimeout /\ UNCHANGED probeFrame
    \/ ProbeDeliver /\ UNCHANGED probeFrame
    \/ ProbeForget /\ UNCHANGED probeFrame
SpecUrl == Init /\ [][NextUrl]_vars

----------------------------------------------------------------------------
\* SpecSpawn: startSyncthing and stopSyncthing under every setting.  The
\* plugin loads any saved settings; startSyncthing is called at any moment
\* (status-bar click, Restart, startOnObsidianOpen) and its probe reports
\* the daemon running or not; calls overlap: a call that waits 1000 ms
\* after stopping the earlier child leaves the event loop to other calls.
\* The executable is present (checkExecutableExists answers true).
MaxLaunching == 2   \* startSyncthing calls in their 1000 ms wait
MaxUnsignalled == 2 \* spawned children never sent SIGTERM

\* which way the then-callback of startSyncthing goes (src/main.ts 540-613)
StartOutcome(running, st, handle) ==
    IF running THEN "running"        \* lines 542-545: return
    ELSE IF st.mobileMode THEN "mobile"   \* lines 548-551: return
    ELSE IF st.useDocker THEN "docker"    \* lines 553-560: the Docker stack
    ELSE IF handle THEN "stop"       \* lines 607-613: stopSyncthing, wait
    ELSE "spawn"                     \* line 625

\* ---- startSyncthing() from its probe's answer to its first wait or its
\* end (src/main.ts 539-645)
StartSyncthing ==
    /\ loaded
    /\ \E running \in BOOLEAN :
        LET outcome == StartOutcome(running, settings, syncthingInstance) IN
        /\ CASE outcome = "stop" ->
                  /\ launching < MaxLaunching
                  /\ launching' = launching + 1
                  /\ unsignalled' = UnsignalledAfterStop
                  /\ handleSignalled' = HandleSignalledAfterStop
                  /\ configDir' = ConfigDirAfterStart
                  /\ UNCHANGED <<syncthingInstance, delayedStarts>>
             [] outcome = "spawn" ->
                  /\ delayedStarts < MaxLauncherTimers
                  /\ unsignalled < MaxUnsignalled
                  /\ syncthingInstance' = TRUE
                  /\ unsignalled' = unsignalled + 1
                  /\ handleSignalled' = FALSE
                  /\ delayedStarts' = delayedStarts + 1
                  /\ configDir' = ConfigDirAfterStart
                  /\ UNCHANGED launching
             [] OTHER ->
                  UNCHANGED <<syncthingInstance, delayedStarts, launching,
                              unsignalled, handleSignalled, configDir>>
        /\ Commit(IF outcome = "stop" THEN StopMonitoring(World) ELSE World,
                  IF outcome = "stop" THEN "stopMonitoring" ELSE "startSyncthing",
                  <<running, outcome>>)
    /\ UNCHANGED <<syncthingApiKey, restartTimers, loaded, statusListeners,
                   settings, baseUrl, probes, batch, stage>>

\* ---- the 1000 ms wait of line 612 is over: spawn, then
\* setTimeout(startStatusMonitoring, 2000)  (src/main.ts 615-643)
SpawnAfterWait ==
    /\ launching > 0
    /\ delayedStarts < MaxLauncherTimers
    /\ unsignalled < MaxUnsignalled
    /\ launching' = launching - 1
    /\ syncthingInstance' = TRUE
    /\ unsignalled' = unsignalled + 1
    /\ handleSignalled' = FALSE
    /\ delayedStarts' = delayedStarts + 1
    /\ Commit(World, "spawn", <<>>)
    /\ UNCHANGED <<syncthingApiKey, restartTimers, loaded, statusListeners,
                   settings, baseUrl, configDir, probes, batch, stage>>

SpawnOnload == LoadAndStart(SettingsChoices)

NextSpawn ==
    \/ SpawnOnload
    \/ StartSyncthing
    \/ SpawnAfterWait
    \/ DelayedStart
    \/ StopSyncthing
SpecSpawn == Init /\ [][NextSpawn]_vars

----------------------------------------------------------------------------
\* SpecToggle: stopSyncthing and startSyncthing beside a polling monitor
\* (the status-bar toggle, the Start, Stop and Restart buttons), on a
\* desktop with the default settings or in mobile mode with a remote URL,
\* with the daemon of SpecLive.  Pending timers fire and requests in
\* flight are answered or fail on their own: the fairness conditions.
ToggleSettings ==
    {DEFAULT_SETTINGS,
     [mobileMode |-> TRUE, useDocker |-> FALSE, remoteUrl |-> RemoteUrl]}

ToggleOnload == LoadAndStart(ToggleSettings)

NextToggle ==
    \/ ToggleOnload
    \/ StopSyncthing
    \/ StartSyncthing
    \/ SpawnAfterWait
    \/ DelayedStart
    \/ LivePollEnd
    \/ LivePollError
    \/ LivePollTimer
    \/ LiveConnEnd
    \/ LiveConnError
SpecToggle ==
    /\ Init /\ [][NextToggle]_vars
    /\ WF_vars(LivePollTimer) /\ WF_vars(LivePollEnd) /\ WF_vars(LiveConnEnd)
    /\ WF_vars(DelayedStart) /\ WF_vars(SpawnAfterWait)

----------------------------------------------------------------------------
\* SpecPort: ensureConfigForPort on any config directory.  The directory
\* holds any port file (absent, empty, blank, a port with or without a
\* trailing newline) and any number of other entries, left there by the
\* daemon or the user; the function is called with either port on a file
\* system whose calls succeed or throw.
MaxFiles == 2       \* entries of the config directory beside the port file
Ports == {"8384", "8385"}
PortFiles == {Absent, "", " ", "8384", "8384\n", "8385"}
ConfigDirs == [portFile : PortFiles, files : 0..MaxFiles]

\* the daemon or the user changes the directory
DirChange ==
    /\ \E d \in ConfigDirs : configDir' = d
    /\ Commit(World, "dirChange", <<>>)
    /\ UNCHANGED <<syncthingApiKey, syncthingInstance, restartTimers,
                   delayedStarts, launching, loaded, statusListeners,
                   settings, baseUrl, unsignalled, handleSignalled,
                   probes, batch, stage>>

\* one call; input: the port, the file system's answers, whether the
\* contents were deleted, the directory before the call
DoEnsureConfigForPort ==
    /\ \E port \in Ports, fs \in FsOutcomes :
        LET r == EnsureConfigForPort(configDir, port, fs) IN
        /\ configDir' = r.dir
        /\ Commit(World, "ensureConfigForPort",
                  <<port, fs, r.deleted, configDir>>)
    /\ UNCHANGED <<syncthingApiKey, syncthingInstance, restartTimers,
                   delayedStarts, launching, loaded, statusListeners,
                   settings, baseUrl, unsignalled, handleSignalled,
                   probes, batch, stage>>

NextPort == DirChange \/ DoEnsureConfigForPort
SpecPort == Init /\ [][NextPort]_vars

----------------------------------------------------------------------------
\* SpecEvents: the event loop of poll() (lines 180-185) as a function of the
\* monitor's fields and of the batch: every batch of up to MaxEvents events
\* is applied to a monitor that already holds values, and its final event
\* is then processed once more.
MaxEvents == 2

StateTargets == {"idle", "scanning"}
Payloads == {FolderData(42, 10, 4), FolderData(100, 10, 0)}
EventKinds ==
    {<<"FolderCompletion", d>> : d \in Payloads}
    \cup {<<"StateChanged", StateChangedTo(t)>> : t \in StateTargets}
    \cup {<<"DeviceConnected", NoData>>, <<"DeviceDisconnected", NoData>>,
          <<"ConfigSaved", NoData>>}
Events == {Event(i, k[1], k[2]) : i \in EventIds, k \in EventKinds}

IsFolderCompletion(e) == e.type = "FolderCompletion"
HasFolderCompletion(events) ==
    \E i \in DOMAIN events : IsFolderCompletion(events[i])
\* the last FolderCompletion event in array order
LastFolderCompletion(events) ==
    LET i == CHOOSE j \in DOMAIN events :
                 /\ IsFolderCompletion(events[j])
                 /\ \A k \in DOMAIN events :
                       IsFolderCompletion(events[k]) => k <= j
    IN events[i]

InitEvents ==
    /\ InitLauncher
    /\ probes = <<>>
    /\ token = "key" /\ isTokenSet = TRUE
    /\ pollingTimeoutId = "undefined"
    /\ pollReqs = 1 /\ connReqs = 0 /\ timers = 0
    /\ status \in {"idle", "No devices connected"}
    /\ lastEventId \in {Undefined, MaxEventId}
    /\ connectedDevicesCount = 0 /\ availableDevices = 0
    /\ \E d \in {NoData, FolderData(7, 8, 9)} :
          /\ fileCompletion = d.completion
          /\ globalItems = d.globalItems
          /\ needItems = d.needItems
    /\ batch \in SeqsUpTo(Events, MaxEvents)
    /\ stage = "ready"
    /\ op = "new" /\ emitted = <<>> /\ issued = <<>> /\ scheduled = <<>>
    /\ input = <<>> /\ phase = "started" /\ timersAtStop = 0

ApplyBatch ==
    /\ stage = "ready"
    /\ stage' = "applied"
    /\ Commit(ProcessBatch(World, batch), "applyBatch", <<>>)
    /\ UNCHANGED <<launcherVars, probes, batch>>

ReplayFinal ==
    /\ stage = "applied"
    /\ batch # <<>>
    /\ stage' = "replayed"
    /\ \E e \in {batch[Len(batch)]}
                \cup (IF HasFolderCompletion(batch)
                      THEN {LastFolderCompletion(batch)} ELSE {}) :
          Commit(ApplyEvent(World, e), "replayFinal", <<>>)
    /\ UNCHANGED <<launcherVars, probes, batch>>

NextEvents == ApplyBatch \/ ReplayFinal
SpecEvents == InitEvents /\ [][NextEvents]_vars

----------------------------------------------------------------------------
\* Claims.

\* C1: once stopMonitoring has returned, no handler issues a GET /rest/events
\* request until startMonitoring is called again, whether a reschedule timer
\* was pending or a poll request was in flight when it was called.
C1_NoPollAfterStop ==
    [][(phase = "stopped" /\ phase' = "stopped")
          => (issued' = <<>> /\ pollReqs' <= pollReqs)]_vars

\* C2: at most one poll request is in flight and at most one poll chain (a
\* request in flight or a pending reschedule timer) exists, in every
\* reachable state of the plugin.
C2_OnePollChain == pollReqs <= 1 /\ pollReqs + timers <= 1

\* C3: startMonitoring with an empty API token sets status to "API key not
\* set", emits exactly one status-update, whose numeric fields are all NaN,
\* issues no request and sets no timer; and while the token is empty no
\* handler issues a poll or connections request.
C3_EmptyTokenStart ==
    [][/\ (op' = "startMonitoring" /\ input' = <<"">>)
            => /\ status' = "API key not set"
               /\ emitted' =
                    << <<"status-update",
                         [status |-> "API key not set", fileCompletion |-> NaN,
                          globalItems |-> NaN, needItems |-> NaN,
                          connectedDevicesCount |-> NaN,
                          availableDevices |-> NaN]>> >>
               /\ issued' = <<>> /\ scheduled' = <<>>
               /\ <<pollReqs, connReqs, timers>>' = <<pollReqs, connReqs, timers>>
       /\ ~Truthy(token')
            => /\ issued' = <<>>
               /\ pollReqs' <= pollReqs /\ connReqs' <= connReqs]_vars

\* C3's case: startMonitoring("") has just run while an earlier poll chain
\* was alive.
C3_Witness ==
    /\ op = "startMonitoring" /\ input = <<"">>
    /\ status = "API key not set" /\ Len(emitted) = 1
    /\ pollReqs + timers > 0

\* C4: no handler other than stopMonitoring lowers lastEventId or makes it
\* absent again: across poll completions with events of lower ids, empty
\* batches, non-array JSON and unparseable bodies it never decreases.
C4_CursorMonotone ==
    [][op' # "stopMonitoring"
          => /\ lastEventId # Undefined => lastEventId' # Undefined
             /\ lastEventId' # Undefined => lastEventId' >= Since(World)]_vars

\* C4's case: a poll completion whose only event has an id below the cursor.
C4_Witness ==
    /\ op = "pollEnd"
    /\ input = <<200, EventsBody(<<Event(1, "ConfigSaved", NoData)>>)>>
    /\ lastEventId = MaxEventId

\* C7: stopMonitoring called while a reschedule timer is pending leaves no
\* timer pending, makes lastEventId absent, sets status "stopped" and emits
\* exactly one 'disconnected'; the poll the next startMonitoring issues asks
\* for since=0.
C7_StopCancelsAndResets ==
    [][/\ (op' = "stopMonitoring" /\ timers > 0)
            => /\ timers' = 0
               /\ lastEventId' = Undefined
               /\ status' = "stopped"
               /\ emitted' = << <<"disconnected">> >>
       /\ (phase = "stopped" /\ timersAtStop > 0 /\ op' = "startMonitoring")
            => issued' = <<0>>]_vars

\* C8: stopMonitoring on a monitor never started or already stopped changes
\* no field of the monitor and emits nothing.
C8_StopIsNoOpWhenNotStarted ==
    [][(op' = "stopMonitoring" /\ phase \in {"new", "stopped"})
          => (monitorVars' = monitorVars /\ emitted' = <<>>)]_vars

\* C5: a connections response that is not 401, not CSRF and well formed, and
\* in which no peer is connected, sets status to "No devices connected"
\* whatever the status was.
C5_NoPeerForcesStatus ==
    [][(/\ op' = "connEnd"
        /\ input'[1] = 200 /\ input'[2].kind = "peers"
        /\ ~HasNull(input'[2].peers) /\ CountUp(input'[2].peers) = 0)
          => status' = "No devices connected"]_vars

\* C5's case: the response with no connected peer arrives after
\* stopMonitoring, when no poll chain is left to change the status "stopped".
C5_Witness ==
    /\ op = "connEnd" /\ input = <<200, PeersBody(<<"down">>)>>
    /\ phase = "stopped" /\ pollReqs + timers = 0
    /\ status = "No devices connected"

\* C6: connectedDevicesCount <= availableDevices in every reachable state.
C6_ConnectedAtMostAvailable == connectedDevicesCount <= availableDevices

C10_LastFolderCompletionWins ==
    (stage \in {"applied", "replayed"} /\ HasFolderCompletion(batch))
        => LET d == LastFolderCompletion(batch).data IN
           /\ fileCompletion = d.completion
           /\ globalItems = d.globalItems
           /\ needItems = d.needItems

\* C10's case: two FolderCompletion events with different payloads, the
\* second replayed.
C10_Witness ==
    /\ stage = "replayed"
    /\ Len(batch) = 2
    /\ batch[1].type = "FolderCompletion" /\ batch[2].type = "FolderCompletion"
    /\ batch[1].data.completion = 100 /\ batch[2].data.completion = 42
    /\ fileCompletion = 42 /\ needItems = 4

\* The status-setting events and the status each sets (the mapping of the
\* specification: StateChanged -> data.to, DeviceConnected, DeviceDisconnected).
SetsStatus(e) ==
    e.type \in {"StateChanged", "DeviceConnected", "DeviceDisconnected"}
StatusSetBy(e) ==
    CASE e.type = "StateChanged" -> e.data.to
      [] e.type = "DeviceConnected" -> "Device connected"
      [] e.type = "DeviceDisconnected" -> "Device disconnected"
\* the status after the batch: that of its last status-setting event, or the
\* status before it when it has none
StatusAfter(before, events) ==
    LET S == {i \in DOMAIN events : SetsStatus(events[i])} IN
    IF S = {} THEN before
    ELSE StatusSetBy(events[CHOOSE i \in S : \A j \in S : j <= i])
\* the cursor after the batch: the greatest of the cursor before it and the
\* ids of its events
CursorAfter(before, events) ==
    IF events = <<>> THEN before
    ELSE LET ids == {events[i].id : i \in DOMAIN events}
                      \cup {IF before = Undefined THEN 0 ELSE before}
         IN CHOOSE m \in ids : \A n \in ids : n <= m

\* C11: the events of a batch are applied in array order: right after the
\* loop, status is the value set by the last status-setting event of the
\* batch (FolderCompletion and other events leave it alone) and lastEventId
\* is the maximum of the previous cursor and all ids of the batch.
C11_BatchAppliedInOrder ==
    [][op' = "applyBatch"
          => /\ status' = StatusAfter(status, batch)
             /\ lastEventId' = CursorAfter(lastEventId, batch)]_vars

\* C11's case: StateChanged to scanning, then a FolderCompletion with a
\* higher id and completion 42, after a status that was not "scanning".
C11_Witness ==
    /\ op = "applyBatch" /\ stage = "applied"
    /\ batch = <<Event(1, "StateChanged", StateChangedTo("scanning")),
                 Event(MaxEventId, "FolderCompletion", FolderData(42, 10, 4))>>
    /\ status = "scanning" /\ fileCompletion = 42 /\ lastEventId = MaxEventId

\* C12: while monitoring is started with a non-empty token and
\* stopMonitoring is not called, every completion of a poll request (a
\* response of any kind, or a transport error) is followed by a new poll
\* request, without end.
C12_PollingNeverCeases ==
    (op \in {"pollEnd", "pollError"} /\ phase = "started" /\ Truthy(token))
        ~> (issued # <<>> \/ phase = "stopped")

\* C12's case: the timer set by a transport error has fired and issued the
\* next poll request.
C12_Witness ==
    /\ op = "pollTimer" /\ phase = "started"
    /\ issued # <<>> /\ pollReqs = 1
    /\ status = "Connection error"

\* C13: every change of the status field made by a handler of the event
\* poll or of the connections check is followed, in that handler, by a
\* 'status-update' emission that carries the new status.
C13_StatusChangeIsEmitted ==
    [][(/\ op' \in {"pollEnd", "pollError", "pollTimer", "connEnd", "connError"}
        /\ status' # status)
          => /\ emitted' # <<>>
             /\ emitted'[Len(emitted')][1] = "status-update"
             /\ emitted'[Len(emitted')][2].status = status']_vars

\* A step of a healthy daemon: no transport error, the event poll answered
\* with 200 and an array, the connections check answered with 200 and a
\* well-formed map with at least one connected peer.
HealthyStep ==
    /\ op' \notin {"pollError", "connError"}
    /\ op' = "pollEnd" => (input'[1] = 200 /\ input'[2].kind = "events")
    /\ op' = "connEnd" => /\ input'[1] = 200 /\ input'[2].kind = "peers"
                          /\ ~HasNull(input'[2].peers)
                          /\ CountUp(input'[2].peers) >= 1

StaleStatuses ==
    {"Connection error", "Invalid API key", "No devices connected", "stopped"}

\* C14: if monitoring stays started and from some point on every poll and
\* every connections request is answered successfully, authenticated and
\* with at least one connected peer, then from some point on status is none
\* of "Connection error", "Invalid API key", "No devices connected" and
\* "stopped".
C14_EventuallyConsistent ==
    (<>[](phase = "started") /\ <>[][HealthyStep]_vars)
        => <>[](status \notin StaleStatuses)

\* C15: from stopMonitoring until the next startMonitoring the status field
\* stays "stopped" and no 'status-update' is emitted, also when a poll or
\* connections request in flight at the stop completes afterwards.
C15_StoppedIsTerminal ==
    [][(phase = "stopped" /\ phase' = "stopped")
          => /\ status' = "stopped"
             /\ \A i \in DOMAIN emitted' : emitted'[i][1] # "status-update"]_vars

\* C16: a poll chain issues requests only within the session that began
\* it, and with that session's token: whenever a timer or a completion
\* handler issues a poll or connections request, monitoring has not been
\* stopped (by a settings change or otherwise) since the startMonitoring
\* that began the chain, and the token sent is the key the settings hold.
C16_SessionCredentialsFixed ==
    [][(/\ op' \in {"pollTimer", "pollEnd"}
        /\ (pollReqs' > pollReqs \/ connReqs' > connReqs))
          => (phase = "started" /\ token = syncthingApiKey)]_vars

\* C17: isSyncthingRunning, pauseSyncthing and resumeSyncthing leave every
\* field of the monitor as it was (status, lastEventId, fileCompletion,
\* globalItems, needItems, connectedDevicesCount, availableDevices, the
\* pending timer), whatever they resolve with.
C17_OneShotsLeaveMonitorAlone ==
    [][(op' \in {"pauseSyncthing", "resumeSyncthing"} \/ probes' # probes)
          => /\ monitorVars' = monitorVars
             /\ netVars' = netVars]_vars

\* C17's case: pauseSyncthing has resolved true while the monitor holds a
\* cursor and a pending timer, and a probe has resolved false.
C17_Witness ==
    /\ op = "pauseSyncthing" /\ input[1].kind = "config" /\ input[3] = "true"
    /\ lastEventId = 1 /\ pollingTimeoutId = "pending" /\ timers = 1
    /\ Len(probes) = 1 /\ probes[1].settled = "false"

\* C18: the icon updateStatusBarFromMonitor sets is the first match of:
\* error if status is "Invalid API key" or "API key not set"; disconnected
\* if connectedDevicesCount is 0; in progress if status is "scanning" or
\* fileCompletion is defined and below 100; connected otherwise, for every
\* payload (any status, NaN counts and completion included).
C18_StatusBarProjection ==
    op = "updateStatusBarFromMonitor" =>
        LET data == input[1]
            icon == input[2]
            keyProblem == data.status \in {"Invalid API key", "API key not set"}
            noPeer == data.connectedDevicesCount = 0
            busy == \/ data.status = "scanning"
                    \/ /\ data.fileCompletion \notin {Undefined, NaN}
                       /\ data.fileCompletion < 100
        IN /\ icon = IconError <=> keyProblem
           /\ icon = IconDisconnected <=> (~keyProblem /\ noPeer)
           /\ icon = IconInProgress <=> (~keyProblem /\ ~noPeer /\ busy)
           /\ icon = IconConnected <=> (~keyProblem /\ ~noPeer /\ ~busy)

\* C18's case: a payload with status "Invalid API key" and no connected
\* device shows the error icon, not the disconnected one.
C18_Witness ==
    /\ op = "updateStatusBarFromMonitor"
    /\ input[1].status = "Invalid API key"
    /\ input[1].connectedDevicesCount = 0
    /\ input[2] = IconError

\* C19: a poll response with status 401 or a body matching /CSRF Error/i
\* sets status to "Invalid API key", emits one status-update, with NaN
\* numeric fields, schedules the next poll after 5000 ms, processes no event
\* of the body (lastEventId and the completion figures stay) and starts no
\* connections check.
C19_PollAuthFailure ==
    [][(op' = "pollEnd" /\ (input'[1] = 401 \/ input'[2].kind = "csrf"))
          => /\ status' = "Invalid API key"
             /\ emitted' =
                  << <<"status-update",
                       [status |-> "Invalid API key", fileCompletion |-> NaN,
                        globalItems |-> NaN, needItems |-> NaN,
                        connectedDevicesCount |-> NaN,
                        availableDevices |-> NaN]>> >>
             /\ scheduled' = <<5000>>
             /\ timers' = timers + 1
             /\ lastEventId' = lastEventId
             /\ <<fileCompletion, globalItems, needItems>>'
                  = <<fileCompletion, globalItems, needItems>>
             /\ connReqs' = connReqs
             /\ issued' = <<>>]_vars

\* C19's case: a 401 whose body is an array holding a FolderCompletion
\* event, answered to the first poll of a session.
C19_Witness ==
    /\ op = "pollEnd"
    /\ input = <<401, EventsBody(<<Event(1, "FolderCompletion",
                                         FolderData(42, 10, 4))>>)>>
    /\ status = "Invalid API key"
    /\ lastEventId = Undefined /\ fileCompletion = Undefined
    /\ scheduled = <<5000>> /\ connReqs = 0

\* C20: a transport error of the event poll sets status to "Connection
\* error", schedules exactly one next poll, after 5000 ms, and leaves
\* lastEventId, fileCompletion, globalItems, needItems and the device counts
\* as they were.
C20_PollTransportError ==
    [][op' = "pollError"
          => /\ status' = "Connection error"
             /\ scheduled' = <<5000>>
             /\ timers' = timers + 1
             /\ issued' = <<>>
             /\ lastEventId' = lastEventId
             /\ <<fileCompletion, globalItems, needItems>>'
                  = <<fileCompletion, globalItems, needItems>>
             /\ <<connectedDevicesCount, availableDevices>>'
                  = <<connectedDevicesCount, availableDevices>>]_vars

\* C20's case: the error strikes a monitor that holds a cursor, completion
\* figures and device counts.
C20_Witness ==
    /\ op = "pollError" /\ status = "Connection error"
    /\ lastEventId = 1 /\ fileCompletion = 42 /\ needItems = 4
    /\ connectedDevicesCount = 1 /\ availableDevices = 1
    /\ scheduled = <<5000>>

\* C21: on a poll response that is no authentication failure (an array,
\* JSON that is no array, unparseable text) the completion handler does, in
\* this order and once each: issue the connections check, emit a
\* status-update carrying the monitor's state, set the timer of the next
\* poll to 1000 ms; a body that is no array or does not parse changes no
\* field of the state.
C21_PollCompletionSteps ==
    [][(op' = "pollEnd" /\ input'[1] # 401 /\ input'[2].kind # "csrf")
          => /\ PollEnd(World, input'[1], input'[2]).order
                  = <<"GET /rest/system/connections", "status-update",
                      "setTimeout">>
             /\ connReqs' = connReqs + 1
             /\ emitted' =
                  << <<"status-update",
                       [status |-> status', fileCompletion |-> fileCompletion',
                        globalItems |-> globalItems', needItems |-> needItems',
                        connectedDevicesCount |-> connectedDevicesCount',
                        availableDevices |-> availableDevices']>> >>
             /\ scheduled' = <<1000>>
             /\ timers' = timers + 1
             /\ input'[2].kind \in {"nonarray", "unparseable"}
                  => /\ status' = status /\ lastEventId' = lastEventId
                     /\ <<fileCompletion, globalItems, needItems>>'
                          = <<fileCompletion, globalItems, needItems>>
                     /\ <<connectedDevicesCount, availableDevices>>'
                          = <<connectedDevicesCount, availableDevices>>]_vars

\* C21's case: a 200 response whose body does not parse, to a monitor that
\* holds a cursor and completion figures.
C21_Witness ==
    /\ op = "pollEnd" /\ input = <<200, UnparseableBody>>
    /\ lastEventId = 1 /\ fileCompletion = 42
    /\ connReqs = 1 /\ scheduled = <<1000>> /\ Len(emitted) = 1

\* C22: a connections response with status 401 or a body matching
\* /CSRF Error/i sets status to "Invalid API key" and leaves
\* connectedDevicesCount and availableDevices as they were.
C22_ConnAuthFailure ==
    [][(op' = "connEnd" /\ (input'[1] = 401 \/ input'[2].kind = "csrf"))
          => /\ status' = "Invalid API key"
             /\ <<connectedDevicesCount, availableDevices>>'
                  = <<connectedDevicesCount, availableDevices>>]_vars

\* C22's case: a 401 arrives at a monitor that counts two connected peers
\* of two.
C22_Witness ==
    /\ op = "connEnd" /\ input[1] = 401
    /\ status = "Invalid API key"
    /\ connectedDevicesCount = MaxPeers /\ availableDevices = MaxPeers

\* C23: a connections check that fails with a transport error, or whose
\* body is no peer map (invalid JSON, no connections field, a malformed
\* entry), leaves status, connectedDevicesCount and availableDevices as they
\* were.
C23_ConnFailureKeepsState ==
    [][(\/ op' = "connError"
        \/ /\ op' = "connEnd" /\ input'[1] = 200
           /\ \/ input'[2].kind \in {"unparseable", "missing"}
              \/ input'[2].kind = "peers" /\ HasNull(input'[2].peers))
          => /\ status' = status
             /\ <<connectedDevicesCount, availableDevices>>'
                  = <<connectedDevicesCount, availableDevices>>]_vars

HandledTypes ==
    {"FolderCompletion", "StateChanged", "DeviceDisconnected", "DeviceConnected"}

\* C24: events of a type other than FolderCompletion, StateChanged,
\* DeviceDisconnected and DeviceConnected change nothing in the monitor's
\* state but the cursor, which advances to their id; a connections response
\* with at least one connected peer sets the two device counts and leaves
\* status and everything else as it was.
C24_IgnoredEventsAndConnectedPeers ==
    [][/\ (/\ op' = "pollEnd" /\ input'[1] = 200 /\ input'[2].kind = "events"
           /\ input'[2].events # <<>>
           /\ \A i \in DOMAIN input'[2].events :
                 input'[2].events[i].type \notin HandledTypes)
            => /\ status' = status
               /\ <<fileCompletion, globalItems, needItems>>'
                    = <<fileCompletion, globalItems, needItems>>
               /\ <<connectedDevicesCount, availableDevices>>'
                    = <<connectedDevicesCount, availableDevices>>
               /\ lastEventId' = CursorAfter(lastEventId, input'[2].events)
       /\ (/\ op' = "connEnd" /\ input'[1] = 200 /\ input'[2].kind = "peers"
           /\ ~HasNull(input'[2].peers) /\ CountUp(input'[2].peers) >= 1)
            => /\ status' = status
               /\ lastEventId' = lastEventId
               /\ <<fileCompletion, globalItems, needItems>>'
                    = <<fileCompletion, globalItems, needItems>>
               /\ connectedDevicesCount' = CountUp(input'[2].peers)
               /\ availableDevices' = Len(input'[2].peers)]_vars

\* C24's case: a ConfigSaved event reaches a monitor whose status is
\* "scanning" and which holds completion figures and a lower cursor.
C24_Witness ==
    /\ op = "pollEnd"
    /\ input = <<200, EventsBody(<<Event(MaxEventId, "ConfigSaved", NoData)>>)>>
    /\ status = "scanning" /\ fileCompletion = 42
    /\ lastEventId = MaxEventId

\* C25: pauseSyncthing (resumeSyncthing) never rejects; it resolves true
\* only if the GET returned a parseable config and the POST, whose body is
\* that config with every folder's paused set to true (false), was answered
\* with 200; it resolves false and sends no POST when the API key is empty
\* or the GET fails or does not parse.
C25_PauseResumeContract ==
    op \in {"pauseSyncthing", "resumeSyncthing"} =>
        LET get == input[1]
            post == input[2]
            result == input[3]
            posted == input[4]
        IN /\ result \in {"true", "false"}
           /\ result = "true"
                => /\ Truthy(syncthingApiKey)
                   /\ get.kind = "config" /\ post = "200"
                   /\ posted = << [i \in DOMAIN get.folders
                                      |-> (op = "pauseSyncthing")] >>
           /\ (~Truthy(syncthingApiKey) \/ get.kind \in {"error", "unparseable"})
                => (result = "false" /\ posted = <<>>)

\* C25's case: resumeSyncthing on a config of two folders, one of them
\* paused, has POSTed both as not paused and resolved true.
C25_Witness ==
    /\ op = "resumeSyncthing"
    /\ input[1] = ConfigBody(<<TRUE, FALSE>>) /\ input[2] = "200"
    /\ input[3] = "true" /\ input[4] = <<<<FALSE, FALSE>>>>

\* C26: the plugin never has more than one status-bar 'status-update'
\* listener on the monitor (so a status-update runs
\* updateStatusBarFromMonitor once), however often startStatusMonitoring
\* has run.
C26_OneStatusListener == statusListeners <= 1

\* C27: every liveness probe isSyncthingRunning issues goes to the host and
\* port of the URL getSyncthingURL() returns for the settings of that moment
\* (a loopback name and ::1 count as the same host), also when no API key is
\* set and after mobileMode, useDocker or remoteUrl was changed.
Loopback == {"localhost", "127.0.0.1", "::1"}
TargetsUrl(options, url) ==
    /\ options.port = ParseInt(UrlPort(url))
    /\ \/ options.hostname = UrlHostname(url)
       \/ options.hostname \in Loopback /\ UrlHostname(url) \in Loopback
C27_ProbeTargetsSettingsUrl ==
    (op = "isSyncthingRunning" /\ GetSyncthingURL(settings) # "")
        => TargetsUrl(input[1], GetSyncthingURL(settings))

\* C28: with an API key set and a daemon that answered the probe of
\* startSyncthing, every startSyncthing call is followed by monitoring
\* being active again (a poll request in flight or a poll timer pending),
\* unless a later call stops monitoring first.
C28_StartRestoresMonitoring ==
    (op = "startSyncthing" /\ Truthy(syncthingApiKey) /\ input[1])
        ~> (Chains(World) > 0 \/ op = "stopMonitoring")

\* C29: startSyncthing spawns no child when its probe reported the daemon
\* running, in mobile mode or with Docker; and the plugin never has two
\* spawned children that no stopSyncthing call has signalled.
C29_NeverTwoUnsignalledChildren ==
    /\ (op = "startSyncthing"
          /\ (input[1] \/ settings.mobileMode \/ settings.useDocker))
        => input[2] # "spawn"
    /\ unsignalled <= 1

\* C30: ensureConfigForPort(configDir, port) deletes the contents of the
\* directory exactly when a non-empty stored port exists and differs from
\* port; afterwards the stored port is port, and a repeated call with the
\* same port deletes nothing.
StoredPort(dir) == IF dir.portFile = Absent THEN "" ELSE Trim(dir.portFile)
C30_PortFileContract ==
    op = "ensureConfigForPort" =>
        /\ input[3] <=> (StoredPort(input[4]) # "" /\ StoredPort(input[4]) # input[1])
        /\ StoredPort(configDir) = input[1]
        /\ \A fs \in FsOutcomes :
              ~EnsureConfigForPort(configDir, input[1], fs).deleted

====
